---- MODULE Spec2Model ----
(***************************************************************************)
(* Model of starknet_caller (src/src/main.rs): one run of `main`, which    *)
(* builds a StarknetContext from the environment, builds the account,     *)
(* encodes one call to `mint_lords`, submits it and prints the hash.      *)
(*                                                                         *)
(* Strings are sequences of one-character strings.  A Felt is the sequence *)
(* of its hexadecimal digits (values 0..15), most significant first,      *)
(* without leading zeros; zero is <<0>>.  A Result is a record            *)
(* [ok, val, err, data], where data is what the error carries; an Option  *)
(* is a sequence of length 0 or 1.                                         *)
(***************************************************************************)
EXTENDS Integers, Sequences, FiniteSets, TLC

VARIABLES
    env,               \* the process environment (fixed during a run)
    pc,                \* position of main
    provider,          \* local `provider` of starknet_call_context (Option)
    signer,            \* local `signer` of starknet_call_context (Option)
    address,           \* local `address` of starknet_call_context (Option)
    context,           \* `context` of main (Option of StarknetContext)
    account,           \* `account` of main (Option of SingleOwnerAccount)
    contract_address,  \* `contract_address` of main (Option of Felt)
    call,              \* `call` of main (Option of Vec<Call>)
    outcome,           \* what execute_v3(call).send().await gave (Option of Result)
    result,            \* `result` of main (Option of InvokeTransactionResult)
    sent,              \* invocations of starknet_call: sequence of [account, calls]
    stdout,            \* lines written to standard output
    stderr,            \* panic diagnostics written to standard error
    exit_code,         \* Option of the process exit code
    reads,             \* environment variables read so far, in order
    began,             \* stages of main that have begun, in order
    completed          \* stages of main that have completed, in order

vars == <<env, pc, provider, signer, address, context, account, contract_address,
          call, outcome, result, sent, stdout, stderr, exit_code, reads, began,
          completed>>

-----------------------------------------------------------------------------
(* Results and options *)

Ok(v) == [ok |-> TRUE, val |-> <<v>>, err |-> "", data |-> <<>>]

Err(e) == [ok |-> FALSE, val |-> <<>>, err |-> e, data |-> <<>>]

ErrWith(e, d) == [ok |-> FALSE, val |-> <<>>, err |-> e, data |-> <<d>>]

None == <<>>

Some(v) == <<v>>

IsSome(o) == Len(o) = 1

-----------------------------------------------------------------------------
(* Strings *)

LowerDigits ==
    <<"0", "1", "2", "3", "4", "5", "6", "7", "8", "9", "a", "b", "c", "d", "e", "f">>

UpperDigits ==
    <<"0", "1", "2", "3", "4", "5", "6", "7", "8", "9", "A", "B", "C", "D", "E", "F">>

HexChars == {LowerDigits[i] : i \in 1..16} \cup {UpperDigits[i] : i \in 1..16}

HexVal(c) == CHOOSE v \in 0..15 : LowerDigits[v + 1] = c \/ UpperDigits[v + 1] = c

\* The letters that occur in the model's inputs and names.
Letters == {"a", "b", "c", "d", "e", "f", "h", "i", "l", "m", "n", "o", "p", "r", "s", "t", "z"}

RECURSIVE StripZeros(_)
StripZeros(ds) ==
    IF Len(ds) > 1 /\ ds[1] = 0 THEN StripZeros(Tail(ds)) ELSE ds

RECURSIVE StripSlashes(_)
StripSlashes(s) ==
    IF Len(s) > 0 /\ s[1] = "/" THEN StripSlashes(Tail(s)) ELSE s

-----------------------------------------------------------------------------
(* Felt::from_hex, as called on lines 48, 126 and 131: an optional 0x      *)
(* prefix, then 1 to 64 hexadecimal digits of either case; anything else   *)
(* is FromStrError.  The value keeps no trace of case, prefix or leading   *)
(* zeros.                                                                  *)

Strip0x(s) ==
    IF Len(s) >= 2 /\ s[1] = "0" /\ s[2] = "x"
    THEN SubSeq(s, 3, Len(s))
    ELSE s

FeltFromHex(s) ==
    LET d == Strip0x(s) IN
    IF \E i \in 1..Len(d) : d[i] \notin HexChars THEN Err("FromStrError")
    ELSE IF Len(d) = 0 \/ Len(d) > 64 THEN Err("FromStrError")
    ELSE Ok(StripZeros([i \in 1..Len(d) |-> HexVal(d[i])]))

-----------------------------------------------------------------------------
(* Url::parse, as called on line 122: an absolute URL needs a scheme of    *)
(* letters before the first colon; an http or https URL needs a non-empty  *)
(* host after the slashes.                                                 *)

ColonAt(s) ==
    IF \E i \in 1..Len(s) : s[i] = ":"
    THEN CHOOSE i \in 1..Len(s) : s[i] = ":" /\ \A j \in 1..(i - 1) : s[j] # ":"
    ELSE 0

SpecialSchemes == {<<"h", "t", "t", "p">>, <<"h", "t", "t", "p", "s">>}

UrlParse(s) ==
    LET c == ColonAt(s)
        scheme == SubSeq(s, 1, c - 1)
        rest == StripSlashes(SubSeq(s, c + 1, Len(s)))
    IN
    IF c <= 1 \/ \E j \in 1..(c - 1) : s[j] \notin Letters
    THEN Err("RelativeUrlWithoutBase")
    ELSE IF scheme \in SpecialSchemes /\ Len(rest) = 0
    THEN Err("EmptyHost")
    ELSE Ok([scheme |-> scheme, rest |-> rest])

-----------------------------------------------------------------------------
(* The environment.  std::env::var gives Err(NotPresent) for a variable    *)
(* that is not set, Err(NotUnicode(value)) for one whose value is not      *)
(* valid Unicode, and Ok(value) otherwise.                                 *)

RPC_URL == "STARKNET_RPC_URL"

PRIVATE_KEY == "STARKNET_PRIVATE_KEY"

ACCOUNT_ADDRESS == "STARKNET_ACCOUNT_ADDRESS"

CONTRACT_ADDRESS == "STARKNET_CONTRACT_ADDRESS"

EnvNames == {RPC_URL, PRIVATE_KEY, ACCOUNT_ADDRESS, CONTRACT_ADDRESS}

Absent == [kind |-> "absent", s |-> <<>>]

NotUnicode(bytes) == [kind |-> "notunicode", s |-> bytes]

Str(s) == [kind |-> "str", s |-> s]

EnvVar(name) ==
    LET e == env[name] IN
    IF e.kind = "absent" THEN Err("NotPresent")
    ELSE IF e.kind = "notunicode" THEN ErrWith("NotUnicode", e.s)
    ELSE Ok(e.s)

\* "\\xff" stands for a byte that is not valid UTF-8.
UrlInputs ==
    { Absent,
      NotUnicode(<<"h", "\\xff">>),
      Str(<<"h", "t", "t", "p", "s", ":", "/", "/", "a">>),
      Str(<<"h", "t", "t", "p", ":", "/", "/">>),
      Str(<<"a", "b">>) }

KeyInputs ==
    { Absent,
      NotUnicode(<<"0", "x", "1", "\\xff">>),
      Str(<<"0", "x", "1">>),
      Str(<<"1", "F">>),
      Str(<<"0", "x", "z">>),
      Str(<<>>) }

AddressInputs ==
    { Absent,
      NotUnicode(<<"\\xff">>),
      Str(<<"0", "x", "2">>),
      Str(<<"0", "x", "0", "2", "a">>),
      Str(<<"0", "x">>) }

ContractInputs ==
    { Absent,
      NotUnicode(<<"0", "x", "\\xff">>),
      Str(<<"0", "x", "3">>),
      Str(<<"0", "x", "1">>),
      Str(<<"3", " ">>) }

-----------------------------------------------------------------------------
(* Fixed parameters of main *)

\* chain_id::SEPOLIA, the short string "SN_SEPOLIA" as a Felt.
SEPOLIA == <<5, 3, 4, 14, 5, 15, 5, 3, 4, 5, 5, 0, 4, 15, 4, 12, 4, 9, 4, 1>>

\* chain_id::MAINNET, the short string "SN_MAIN" as a Felt.
MAINNET == <<5, 3, 4, 14, 5, 15, 4, 13, 4, 1, 4, 9, 4, 14>>

selector_name == <<"m", "i", "n", "t", "_", "l", "o", "r", "d", "s">>

\* get_selector_from_name: the two reserved entry point names resolve to
\* zero, a name that is not ASCII is an error, and any other name resolves to
\* its Starknet Keccak digest, kept symbolic here: equal names, equal digests.
DefaultEntryPoints ==
    { <<"_", "_", "d", "e", "f", "a", "u", "l", "t", "_", "_">>,
      <<"_", "_", "l", "1", "_", "d", "e", "f", "a", "u", "l", "t", "_", "_">> }

get_selector_from_name(name) ==
    IF name \in DefaultEntryPoints THEN Ok([zero |-> TRUE, keccak |-> <<>>])
    ELSE IF \E i \in 1..Len(name) : name[i] \notin (Letters \cup HexChars \cup {"_"})
    THEN Err("NonAsciiName")
    ELSE Ok([zero |-> FALSE, keccak |-> name])

-----------------------------------------------------------------------------
(* Output formatting: `{:#064x}` applied to a Felt.  Felt's LowerHex writes *)
(* "0x" when the alternate flag is set, and pads the digits (not the       *)
(* prefix) with zeros up to min(width, 64) when the zero flag is set.      *)

FormatWidth == 64

Zeros(n) == [i \in 1..n |-> "0"]

FeltLowerHex(felt, alternate, zero_pad, width) ==
    LET hex == [i \in 1..Len(felt) |-> LowerDigits[felt[i] + 1]]
        w == IF zero_pad THEN (IF width < 64 THEN width ELSE 64) ELSE 1
        pad == IF Len(hex) < w THEN Zeros(w - Len(hex)) ELSE <<>>
    IN (IF alternate THEN <<"0", "x">> ELSE <<>>) \o pad \o hex

FormatTransactionHash_Unpadded(hash) ==
    <<"Transaction hash: ">> \o FeltLowerHex(hash, TRUE, FALSE, 0)

FormatTransactionHash(hash) ==
    <<"Transaction hash: ">> \o FeltLowerHex(hash, TRUE, TRUE, FormatWidth)

-----------------------------------------------------------------------------
(* The network: what account.execute_v3(call).send() can come back with.   *)

MaxHashLen == 2

HashDigits == {0, 1, 4, 15}

\* The largest Felt, the field's prime minus one: 63 hexadecimal digits.
FeltMax == [i \in 1..63 |-> IF i = 1 THEN 8 ELSE IF i \in {14, 15} THEN 1 ELSE 0]

TransactionHashes ==
    {FeltMax} \cup
    UNION { {StripZeros(h) : h \in [1..n -> HashDigits]} : n \in 1..MaxHashLen }

SendErrors == {"Provider", "Signing", "FeeOutOfRange"}

SendOutcomes ==
    {Ok([transaction_hash |-> h]) : h \in TransactionHashes}
        \cup {Err(e) : e \in SendErrors}

-----------------------------------------------------------------------------
(* Panics.  A panic in main writes one diagnostic to standard error and    *)
(* ends the process with exit code 101.  `expect(msg)` reports             *)
(* "msg: <error>", `unwrap()` reports the error after a fixed text; the    *)
(* Debug form of VarError::NotUnicode carries the variable's raw value.    *)

UnwrapMsg == "called Result::unwrap() on an Err value"

Diagnostic(line, msg, r) == [at |-> line, msg |-> msg, err |-> r.err, data |-> r.data]

Panic(line, msg, r) ==
    /\ stderr' = Append(stderr, Diagnostic(line, msg, r))
    /\ exit_code' = Some(101)
    /\ pc' = "exited"

Goto(next) ==
    /\ pc' = next
    /\ UNCHANGED <<stderr, exit_code>>

-----------------------------------------------------------------------------
(* starknet_call_context, lines 120-142 *)

\* lines 121-124: let provider = JsonRpcClient::new(HttpTransport::new(Url::parse(..)))
CtxProvider ==
    /\ pc = "ctx_provider"
    /\ began' = Append(began, "context")
    /\ reads' = Append(reads, RPC_URL)
    /\ LET v == EnvVar(RPC_URL) IN
       IF ~v.ok
       THEN Panic(122, "cannot find STARKNET_RPC_URL env", v) /\ UNCHANGED provider
       ELSE LET u == UrlParse(v.val[1]) IN
            IF ~u.ok
            THEN Panic(123, UnwrapMsg, u) /\ UNCHANGED provider
            ELSE /\ provider' = Some([url |-> u.val[1]])
                 /\ Goto("ctx_signer")
    /\ UNCHANGED <<env, signer, address, context, account, contract_address, call,
                   outcome, result, sent, stdout, completed>>

\* A variant that reads the account address before the private key.
CtxSigner_AddressFirst ==
    /\ pc = "ctx_signer"
    /\ reads' = reads \o <<ACCOUNT_ADDRESS, PRIVATE_KEY>>
    /\ LET a == EnvVar(ACCOUNT_ADDRESS)
           v == EnvVar(PRIVATE_KEY)
       IN
       IF ~a.ok
       THEN Panic(133, "cannot find STARKNET_ACCOUNT_ADDRESS env", a) /\ UNCHANGED signer
       ELSE IF ~v.ok
       THEN Panic(127, "cannot find STARKNET_PRIVATE_KEY env", v) /\ UNCHANGED signer
       ELSE LET f == FeltFromHex(v.val[1]) IN
            IF ~f.ok
            THEN Panic(129, UnwrapMsg, f) /\ UNCHANGED signer
            ELSE /\ signer' = Some([secret_scalar |-> f.val[1]])
                 /\ Goto("ctx_address")
    /\ UNCHANGED <<env, provider, address, context, account, contract_address, call,
                   outcome, result, sent, stdout, began, completed>>

\* lines 125-130: let signer = LocalWallet::from(SigningKey::from_secret_scalar(..))
CtxSigner ==
    /\ pc = "ctx_signer"
    /\ reads' = Append(reads, PRIVATE_KEY)
    /\ LET v == EnvVar(PRIVATE_KEY) IN
       IF ~v.ok
       THEN Panic(127, "cannot find STARKNET_PRIVATE_KEY env", v) /\ UNCHANGED signer
       ELSE LET f == FeltFromHex(v.val[1]) IN
            IF ~f.ok
            THEN Panic(129, UnwrapMsg, f) /\ UNCHANGED signer
            ELSE /\ signer' = Some([secret_scalar |-> f.val[1]])
                 /\ Goto("ctx_address")
    /\ UNCHANGED <<env, provider, address, context, account, contract_address, call,
                   outcome, result, sent, stdout, began, completed>>

\* A variant with unwrap_or_default() in place of unwrap() on line 135.
CtxAddress_Default ==
    /\ pc = "ctx_address"
    /\ reads' = Append(reads, ACCOUNT_ADDRESS)
    /\ LET v == EnvVar(ACCOUNT_ADDRESS) IN
       IF ~v.ok
       THEN Panic(133, "cannot find STARKNET_ACCOUNT_ADDRESS env", v) /\ UNCHANGED address
       ELSE LET f == FeltFromHex(v.val[1]) IN
            /\ address' = Some(IF f.ok THEN f.val[1] ELSE <<0>>)
            /\ Goto("ctx_return")
    /\ UNCHANGED <<env, provider, signer, context, account, contract_address, call,
                   outcome, result, sent, stdout, began, completed>>

\* lines 131-135: let address = Felt::from_hex(..).unwrap()
CtxAddress ==
    /\ pc = "ctx_address"
    /\ reads' = Append(reads, ACCOUNT_ADDRESS)
    /\ LET v == EnvVar(ACCOUNT_ADDRESS) IN
       IF ~v.ok
       THEN Panic(133, "cannot find STARKNET_ACCOUNT_ADDRESS env", v) /\ UNCHANGED address
       ELSE LET f == FeltFromHex(v.val[1]) IN
            IF ~f.ok
            THEN Panic(135, UnwrapMsg, f) /\ UNCHANGED address
            ELSE /\ address' = Some(f.val[1])
                 /\ Goto("ctx_return")
    /\ UNCHANGED <<env, provider, signer, context, account, contract_address, call,
                   outcome, result, sent, stdout, began, completed>>

\* lines 137-141 and 41: the three locals move into the StarknetContext
CtxReturn ==
    /\ pc = "ctx_return"
    /\ context' = Some([provider |-> provider[1], signer |-> signer[1],
                        address |-> address[1]])
    /\ provider' = None
    /\ signer' = None
    /\ address' = None
    /\ completed' = Append(completed, "context")
    /\ Goto("account")
    /\ UNCHANGED <<env, account, contract_address, call, outcome, result, sent, stdout,
                   reads, began>>

-----------------------------------------------------------------------------
(* starknet_account, lines 156-165, as called on lines 42-47 *)

starknet_account(p, s, a, chain_id) ==
    [provider |-> p, signer |-> s, address |-> a, chain_id |-> chain_id,
     encoding |-> "New"]

\* A variant that passes chain_id::MAINNET on line 46.
BuildAccount_Mainnet ==
    /\ pc = "account"
    /\ began' = Append(began, "account")
    /\ account' = Some(starknet_account(context[1].provider, context[1].signer,
                                        context[1].address, MAINNET))
    /\ context' = None
    /\ completed' = Append(completed, "account")
    /\ Goto("contract_address")
    /\ UNCHANGED <<env, provider, signer, address, contract_address, call, outcome,
                   result, sent, stdout, reads>>

BuildAccount ==
    /\ pc = "account"
    /\ began' = Append(began, "account")
    /\ account' = Some(starknet_account(context[1].provider, context[1].signer,
                                        context[1].address, SEPOLIA))
    /\ context' = None
    /\ completed' = Append(completed, "account")
    /\ Goto("contract_address")
    /\ UNCHANGED <<env, provider, signer, address, contract_address, call, outcome, result,
                   sent, stdout, reads>>

-----------------------------------------------------------------------------
(* The call, lines 48-59 *)

\* A variant with unwrap_or_default() in place of unwrap() on line 52.
ReadContractAddress_Lenient ==
    /\ pc = "contract_address"
    /\ began' = Append(began, "encode")
    /\ reads' = Append(reads, CONTRACT_ADDRESS)
    /\ LET v == EnvVar(CONTRACT_ADDRESS) IN
       IF ~v.ok
       THEN /\ Panic(50, "cannot find STARKNET_CONTRACT_ADDRESS env", v)
            /\ UNCHANGED contract_address
       ELSE LET f == FeltFromHex(v.val[1]) IN
            /\ contract_address' = Some(IF f.ok THEN f.val[1] ELSE <<0>>)
            /\ Goto("encode")
    /\ UNCHANGED <<env, provider, signer, address, context, account, call, outcome,
                   result, sent, stdout, completed>>

\* lines 48-52: let contract_address = Felt::from_hex(..).unwrap()
ReadContractAddress ==
    /\ pc = "contract_address"
    /\ began' = Append(began, "encode")
    /\ reads' = Append(reads, CONTRACT_ADDRESS)
    /\ LET v == EnvVar(CONTRACT_ADDRESS) IN
       IF ~v.ok
       THEN /\ Panic(50, "cannot find STARKNET_CONTRACT_ADDRESS env", v)
            /\ UNCHANGED contract_address
       ELSE LET f == FeltFromHex(v.val[1]) IN
            IF ~f.ok
            THEN Panic(52, UnwrapMsg, f) /\ UNCHANGED contract_address
            ELSE /\ contract_address' = Some(f.val[1])
                 /\ Goto("encode")
    /\ UNCHANGED <<env, provider, signer, address, context, account, call, outcome, result,
                   sent, stdout, completed>>

\* lines 53-59: let call = vec![Call { to, selector, calldata: vec![] }]
EncodeCall ==
    /\ pc = "encode"
    /\ LET sel == get_selector_from_name(selector_name) IN
       IF ~sel.ok
       THEN /\ Panic(57, UnwrapMsg, sel)
            /\ UNCHANGED <<call, completed>>
       ELSE /\ call' = Some(<<[to |-> contract_address[1],
                               selector |-> sel.val[1],
                               calldata |-> <<>>]>>)
            /\ completed' = Append(completed, "encode")
            /\ Goto("submit")
    /\ UNCHANGED <<env, provider, signer, address, context, account, contract_address,
                   outcome, result, sent, stdout, reads, began>>

-----------------------------------------------------------------------------
(* starknet_call, lines 95-102, as called on line 61 *)

\* A variant that submits the calls twice.
StarknetCallSend_Twice ==
    /\ pc = "submit"
    /\ began' = Append(began, "submit")
    /\ sent' = sent \o << [account |-> account[1], calls |-> call[1]],
                          [account |-> account[1], calls |-> call[1]] >>
    /\ account' = None
    /\ call' = None
    /\ Goto("await")
    /\ UNCHANGED <<env, provider, signer, address, context, contract_address,
                   outcome, result, stdout, reads, completed>>

\* line 61 and line 99 up to the await: the account and the calls move into
\* the submitter, which hands them to execute_v3(..).send()
StarknetCallSend ==
    /\ pc = "submit"
    /\ began' = Append(began, "submit")
    /\ sent' = Append(sent, [account |-> account[1], calls |-> call[1]])
    /\ account' = None
    /\ call' = None
    /\ Goto("await")
    /\ UNCHANGED <<env, provider, signer, address, context, contract_address,
                   outcome, result, stdout, reads, completed>>

\* A variant with unwrap_or_default() in place of unwrap() on line 99.
StarknetCallAwait_Lenient ==
    /\ pc = "await"
    /\ \E r \in SendOutcomes :
        /\ outcome' = Some(r)
        /\ result' = Some(IF r.ok THEN r.val[1] ELSE [transaction_hash |-> <<0>>])
        /\ completed' = Append(completed, "submit")
        /\ Goto("print")
    /\ UNCHANGED <<env, provider, signer, address, context, account, contract_address,
                   call, sent, stdout, reads, began>>

\* A variant that submits again when the submission fails.
StarknetCallAwait_Retry ==
    /\ pc = "await"
    /\ \E r \in SendOutcomes :
        /\ outcome' = Some(r)
        /\ IF ~r.ok
           THEN /\ account' = Some(sent[Len(sent)].account)
                /\ call' = Some(sent[Len(sent)].calls)
                /\ Goto("submit")
                /\ UNCHANGED <<result, completed>>
           ELSE /\ result' = Some(r.val[1])
                /\ completed' = Append(completed, "submit")
                /\ Goto("print")
                /\ UNCHANGED <<account, call>>
    /\ UNCHANGED <<env, provider, signer, address, context, contract_address,
                   sent, stdout, reads, began>>

\* lines 99-101: .await.unwrap(), then the result goes back to main
StarknetCallAwait ==
    /\ pc = "await"
    /\ \E r \in SendOutcomes :
        /\ outcome' = Some(r)
        /\ IF ~r.ok
           THEN /\ Panic(99, UnwrapMsg, r)
                /\ UNCHANGED <<result, completed>>
           ELSE /\ result' = Some(r.val[1])
                /\ completed' = Append(completed, "submit")
                /\ Goto("print")
    /\ UNCHANGED <<env, provider, signer, address, context, account, contract_address,
                   call, sent, stdout, reads, began>>

-----------------------------------------------------------------------------
(* Output, lines 63-64 *)

\* A variant that ignores a failed write, as `let _ = writeln!(..)` does.
PrintHash_IgnoreError ==
    /\ pc = "print"
    /\ began' = Append(began, "output")
    /\ \E writable \in BOOLEAN :
        /\ stdout' = IF writable
                     THEN Append(stdout, FormatTransactionHash(result[1].transaction_hash))
                     ELSE stdout
        /\ completed' = Append(completed, "output")
        /\ Goto("return")
    /\ UNCHANGED <<env, provider, signer, address, context, account, contract_address,
                   call, outcome, result, sent, reads>>

\* line 63: println! panics when standard output cannot be written
PrintHash ==
    /\ pc = "print"
    /\ began' = Append(began, "output")
    /\ \E writable \in BOOLEAN :
        IF ~writable
        THEN /\ Panic(63, "failed printing to stdout", Err("Io"))
             /\ UNCHANGED <<stdout, completed>>
        ELSE /\ stdout' = Append(stdout, FormatTransactionHash(result[1].transaction_hash))
             /\ completed' = Append(completed, "output")
             /\ Goto("return")
    /\ UNCHANGED <<env, provider, signer, address, context, account, contract_address,
                   call, outcome, result, sent, reads>>

\* line 64: main returns and the process exits with code 0
MainReturn ==
    /\ pc = "return"
    /\ exit_code' = Some(0)
    /\ pc' = "exited"
    /\ UNCHANGED <<env, provider, signer, address, context, account, contract_address,
                   call, outcome, result, sent, stdout, stderr, reads, began, completed>>

-----------------------------------------------------------------------------

Init ==
    /\ env \in [EnvNames -> UrlInputs \cup KeyInputs \cup AddressInputs \cup ContractInputs]
    /\ env[RPC_URL] \in UrlInputs
    /\ env[PRIVATE_KEY] \in KeyInputs
    /\ env[ACCOUNT_ADDRESS] \in AddressInputs
    /\ env[CONTRACT_ADDRESS] \in ContractInputs
    /\ pc = "ctx_provider"
    /\ provider = None
    /\ signer = None
    /\ address = None
    /\ context = None
    /\ account = None
    /\ contract_address = None
    /\ call = None
    /\ outcome = None
    /\ result = None
    /\ sent = <<>>
    /\ stdout = <<>>
    /\ stderr = <<>>
    /\ exit_code = None
    /\ reads = <<>>
    /\ began = <<>>
    /\ completed = <<>>

Next ==
    \/ CtxProvider
    \/ CtxSigner
    \/ CtxAddress
    \/ CtxReturn
    \/ BuildAccount
    \/ ReadContractAddress
    \/ EncodeCall
    \/ StarknetCallSend
    \/ StarknetCallAwait
    \/ PrintHash
    \/ MainReturn

Spec == Init /\ [][Next]_vars

\* main is one task that runs to completion: every step that can be taken is taken.
FairSpec == Spec /\ WF_vars(Next)

-----------------------------------------------------------------------------
(* Vocabulary of the properties *)

EnvOrder == <<RPC_URL, PRIVATE_KEY, ACCOUNT_ADDRESS, CONTRACT_ADDRESS>>

StageOrder == <<"context", "account", "encode", "submit", "output">>

IsPrefix(a, b) == Len(a) <= Len(b) /\ a = SubSeq(b, 1, Len(a))

\* The input is present, is valid Unicode, and parses as what it must be.
InputOk(name) ==
    /\ env[name].kind = "str"
    /\ IF name = RPC_URL THEN UrlParse(env[name].s).ok ELSE FeltFromHex(env[name].s).ok

AnyInvalid == \E n \in EnvNames : ~InputOk(n)

FirstInvalid == CHOOSE i \in 1..4 : ~InputOk(EnvOrder[i]) /\ \A j \in 1..(i - 1) : InputOk(EnvOrder[j])

\* Where main panics over each input: the expect() and the unwrap() on it.
PanicLines(name) ==
    IF name = RPC_URL THEN {122, 123}
    ELSE IF name = PRIVATE_KEY THEN {127, 129}
    ELSE IF name = ACCOUNT_ADDRESS THEN {133, 135}
    ELSE {50, 52}

Exited == pc = "exited"

Fatal == Exited /\ exit_code = Some(101) /\ Len(stderr) = 1

SubmissionFailed == IsSome(outcome) /\ ~outcome[1].ok

LowerHexChars == {LowerDigits[i] : i \in 1..16}

\* The components a context or an account holds are the parses of the inputs.
BuiltFromInputs(c) ==
    /\ InputOk(RPC_URL) /\ InputOk(PRIVATE_KEY) /\ InputOk(ACCOUNT_ADDRESS)
    /\ c.provider = [url |-> UrlParse(env[RPC_URL].s).val[1]]
    /\ c.signer = [secret_scalar |-> FeltFromHex(env[PRIVATE_KEY].s).val[1]]
    /\ c.address = FeltFromHex(env[ACCOUNT_ADDRESS].s).val[1]

-----------------------------------------------------------------------------
(* C1: when any of the four inputs is absent or malformed, starknet_call   *)
(* is never invoked, the run never exits with code 0, and the run ends in  *)
(* a panic.                                                                *)
C1_InvalidInputIsFatalBeforeNetwork ==
    /\ [](AnyInvalid => sent = <<>> /\ outcome = None /\ exit_code # Some(0))
    /\ (AnyInvalid ~> Fatal)

\* An invalid contract address has ended a run whose context and account were built.
C1_Witness ==
    /\ Fatal
    /\ AnyInvalid
    /\ reads = EnvOrder
    /\ sent = <<>>

(* C2: a failed submission ends the run in a panic with nothing on         *)
(* standard output, and a line is on standard output only after the        *)
(* submission came back successful.                                        *)
C2_HashLineOnlyAfterSuccess ==
    /\ SubmissionFailed => Fatal /\ stdout = <<>> /\ result = None /\ stderr[1].at = 99
    /\ stdout # <<>> =>
         /\ IsSome(outcome) /\ outcome[1].ok
         /\ result = Some(outcome[1].val[1])
         /\ Len(sent) = 1

C2_Witness == SubmissionFailed /\ Fatal /\ outcome[1].err = "Provider"

(* C3: starknet_call is invoked at most once; a run that exits with code 0 *)
(* invoked it once, a run with an invalid input never, and a run whose     *)
(* submission failed once, and that run is over.                           *)
C3_AtMostOneSubmission ==
    /\ Len(sent) <= 1
    /\ Exited /\ exit_code = Some(0) => Len(sent) = 1
    /\ AnyInvalid => Len(sent) = 0
    /\ SubmissionFailed => Len(sent) = 1 /\ Exited

C3_Witness == SubmissionFailed /\ Exited /\ Len(sent) = 1

(* C4: a run that is over has exit code 0 or 101; it is 0 exactly when the *)
(* submission succeeded and the hash line is on standard output, and it is *)
(* 101 after any invalid input or failed submission.  A run that is not    *)
(* over has no exit code.                                                  *)
C4_ExitCode ==
    /\ Exited <=> exit_code # None
    /\ Exited =>
         /\ exit_code \in {Some(0), Some(101)}
         /\ exit_code = Some(0) <=>
              IsSome(outcome) /\ outcome[1].ok /\ Len(stdout) = 1
         /\ exit_code = Some(0) <=> stderr = <<>>
         /\ AnyInvalid \/ SubmissionFailed => exit_code = Some(101)

C4_Witness == Exited /\ exit_code = Some(0) /\ Len(stdout) = 1

(* C5: every line on standard output is "Transaction hash: ", then 0x,     *)
(* then exactly 64 lowercase hexadecimal digits whose value is the hash    *)
(* that the submission returned.                                           *)
C5_HashLineFormat ==
    \A k \in 1..Len(stdout) :
        LET line == stdout[k] IN
        /\ Len(line) = 67
        /\ line[1] = "Transaction hash: "
        /\ line[2] = "0" /\ line[3] = "x"
        /\ \A j \in 4..67 : line[j] \in LowerHexChars
        /\ StripZeros([j \in 1..64 |-> HexVal(line[j + 3])])
             = outcome[1].val[1].transaction_hash

\* The hash 0x4 is printed as 0x, 63 zeros and a 4.
C5_Witness ==
    /\ Len(stdout) = 1
    /\ outcome[1].val[1].transaction_hash = <<4>>
    /\ stdout[1] = <<"Transaction hash: ", "0", "x">> \o [j \in 1..63 |-> "0"] \o <<"4">>

(* C6: a context exists only with all three components parsed from valid   *)
(* inputs, starknet_account is reached only with such a context, and the   *)
(* account it builds holds the same three components.                      *)
C6_ContextAllOrNothing ==
    /\ pc = "account" => IsSome(context)
    /\ IsSome(context) => BuiltFromInputs(context[1])
    /\ IsSome(account) => BuiltFromInputs(account[1])
    /\ \A k \in 1..Len(sent) : BuiltFromInputs(sent[k].account)
    /\ ~(InputOk(RPC_URL) /\ InputOk(PRIVATE_KEY) /\ InputOk(ACCOUNT_ADDRESS)) =>
         context = None /\ account = None /\ "context" \notin {completed[k] : k \in 1..Len(completed)}

C6_Witness == IsSome(account) /\ BuiltFromInputs(account[1]) /\ env[ACCOUNT_ADDRESS].s = <<"0", "x", "0", "2", "a">>

(* C7: the stages begin in the order context, account, encode, submit,     *)
(* output, each at most once, and a stage begins only when every stage     *)
(* before it has completed.                                                *)
C7_StageOrder ==
    /\ IsPrefix(began, StageOrder)
    /\ IsPrefix(completed, began)
    /\ Len(began) <= Len(completed) + 1

C7_Witness == began = StageOrder /\ completed = StageOrder

(* C8: the value of STARKNET_PRIVATE_KEY appears in nothing the program    *)
(* writes: in no diagnostic on standard error, and every line on standard  *)
(* output is the formatted hash that the network returned.                 *)
C8_SecretNeverWritten ==
    /\ \A k \in 1..Len(stderr) :
         env[PRIVATE_KEY].kind # "absent" => stderr[k].data # <<env[PRIVATE_KEY].s>>
    /\ \A k \in 1..Len(stdout) :
         stdout[k] = FormatTransactionHash(outcome[1].val[1].transaction_hash)

(* C9: whatever is submitted is exactly one call, to the Felt parsed from  *)
(* STARKNET_CONTRACT_ADDRESS, with the selector of "mint_lords" and no     *)
(* calldata, from an account on the Sepolia chain with the New encoding.   *)
C9_SubmittedCall ==
    \A k \in 1..Len(sent) :
        /\ Len(sent[k].calls) = 1
        /\ InputOk(CONTRACT_ADDRESS)
        /\ sent[k].calls[1].to = FeltFromHex(env[CONTRACT_ADDRESS].s).val[1]
        /\ sent[k].calls[1].selector =
             [zero |-> FALSE, keccak |-> <<"m", "i", "n", "t", "_", "l", "o", "r", "d", "s">>]
        /\ Len(sent[k].calls[1].calldata) = 0
        /\ sent[k].account.chain_id =
             <<5, 3, 4, 14, 5, 15, 5, 3, 4, 5, 5, 0, 4, 15, 4, 12, 4, 9, 4, 1>>
        /\ sent[k].account.encoding = "New"

C9_Witness == Len(sent) = 1 /\ sent[1].calls[1].to = <<3>>

(* C10: the inputs are read in the order STARKNET_RPC_URL,                 *)
(* STARKNET_PRIVATE_KEY, STARKNET_ACCOUNT_ADDRESS,                         *)
(* STARKNET_CONTRACT_ADDRESS; no input after the first invalid one is      *)
(* read; the panic of a run with an invalid input is the one over the      *)
(* first invalid input; and the contract address is read only after the    *)
(* account is built.                                                       *)
C10_InputOrder ==
    /\ IsPrefix(reads, EnvOrder)
    /\ AnyInvalid => Len(reads) <= FirstInvalid
    /\ AnyInvalid /\ Exited =>
         /\ Len(reads) = FirstInvalid
         /\ Len(stderr) = 1
         /\ stderr[1].at \in PanicLines(EnvOrder[FirstInvalid])
    /\ Len(reads) = 4 => Len(completed) >= 2 /\ completed[2] = "account"

\* Private key and contract address are both invalid; the run ended over the key.
C10_Witness ==
    /\ Exited
    /\ ~InputOk(PRIVATE_KEY) /\ ~InputOk(CONTRACT_ADDRESS) /\ InputOk(RPC_URL)
    /\ reads = <<RPC_URL, PRIVATE_KEY>>
    /\ stderr[1].at = 129

====
